---- MODULE Spec2Model ----
(***************************************************************************)
(* A model of the PNG chunk codec (chunk_type.rs, chunk.rs), of the PNG    *)
(* container it is used by, and of the three commands of main.rs (hide,    *)
(* find, delete).                                                          *)
(*                                                                         *)
(* Bytes are the integers 0..255.  A u32 is the record [hi, lo] of its two *)
(* 16-bit halves, so that every 32-bit value is representable and the      *)
(* big-endian conversions are real computations.  A Rust string is the     *)
(* sequence of its chars (Unicode scalar values); as_bytes / into_bytes    *)
(* is the UTF-8 encoding and std::str::from_utf8 the validating decoding.  *)
(***************************************************************************)
EXTENDS Integers, Sequences, FiniteSets

VARIABLES
    \* chunk type parsing (chunk_type.rs)
    s, parsed, rendered,
    \* chunk codec (chunk.rs)
    chunk, wire, edit, decoded, reenc,
    \* container (png module)
    buf, png, orig, op, out, phase,
    \* commands (main.rs)
    file, cmd, result, printed, written

typeVars == <<s, parsed, rendered>>
chunkVars == <<chunk, wire, edit, decoded, reenc>>
pngVars == <<buf, png, orig, op, out, phase>>
cliVars == <<file, cmd, result, printed, written>>
vars == <<s, parsed, rendered, chunk, wire, edit, decoded, reenc,
          buf, png, orig, op, out, phase,
          file, cmd, result, printed, written>>

----------------------------------------------------------------------------
\* Bounds of the model.

\* longest chunk-type string tried, in chars
MaxChars == 5
\* longest payload of a generated chunk, in bytes
MaxPayloadLen == 2
\* most trailing bytes added after an encoded chunk
MaxTrail == 1
\* most chunks a container holds
MaxChunks == 3

----------------------------------------------------------------------------
\* Sequences and bytes.

Byte == 0..255

\* all sequences over S of length 0..n
RECURSIVE SeqsUpTo(_, _)
SeqsUpTo(S, n) ==
    IF n = 0 THEN {<<>>}
    ELSE LET shorter == SeqsUpTo(S, n - 1)
         IN  shorter \cup {Append(q, x) : q \in {r \in shorter : Len(r) = n - 1}, x \in S}

RECURSIVE Flatten(_)
Flatten(qs) == IF qs = <<>> THEN <<>> ELSE Head(qs) \o Flatten(Tail(qs))

RECURSIVE BitXor(_, _)
BitXor(a, b) ==
    IF a = 0 THEN b
    ELSE IF b = 0 THEN a
    ELSE (((a % 2) + (b % 2)) % 2) + 2 * BitXor(a \div 2, b \div 2)

----------------------------------------------------------------------------
\* u32 values.

U32(hi, lo) == [hi |-> hi, lo |-> lo]

\* `n as u32` for a usize n
AsU32(n) == U32((n \div 65536) % 65536, n % 65536)

\* u32::to_be_bytes
ToBeBytes(u) == <<u.hi \div 256, u.hi % 256, u.lo \div 256, u.lo % 256>>

\* u32::from_be_bytes
FromBeBytes(b) == U32(b[1] * 256 + b[2], b[3] * 256 + b[4])

\* the xor of two bytes, tabulated
XorByte == [a \in Byte |-> [b \in Byte |-> BitXor(a, b)]]

Xor16(a, b) == XorByte[a \div 256][b \div 256] * 256 + XorByte[a % 256][b % 256]

XorU32(x, y) == U32(Xor16(x.hi, y.hi), Xor16(x.lo, y.lo))

Shr1(u) == U32(u.hi \div 2, (u.lo \div 2) + (u.hi % 2) * 32768)

Shr8(u) == U32(u.hi \div 256, (u.lo \div 256) + (u.hi % 256) * 256)

----------------------------------------------------------------------------
\* CRC-32/ISO-HDLC (crc::CRC_32_ISO_HDLC): polynomial 0x04C11DB7 reflected
\* (0xEDB88320), initial value 0xFFFFFFFF, reflected input and output, final
\* xor 0xFFFFFFFF.

CrcPoly == U32(60856, 33568)

CrcInit == U32(65535, 65535)

RECURSIVE CrcShift(_, _)
CrcShift(u, n) ==
    IF n = 0 THEN u
    ELSE CrcShift(IF u.lo % 2 = 1 THEN XorU32(Shr1(u), CrcPoly) ELSE Shr1(u), n - 1)

CrcTable == [b \in Byte |-> CrcShift(U32(0, b), 8)]

RECURSIVE CrcUpdate(_, _, _)
CrcUpdate(crc, bytes, i) ==
    IF i > Len(bytes) THEN crc
    ELSE CrcUpdate(XorU32(CrcTable[XorByte[crc.lo % 256][bytes[i]]], Shr8(crc)),
                   bytes, i + 1)

\* Crc::<u32>::new(&crc::CRC_32_ISO_HDLC).checksum(bytes)
Checksum(bytes) == XorU32(CrcUpdate(CrcInit, bytes, 1), CrcInit)

----------------------------------------------------------------------------
\* UTF-8.

\* the UTF-8 encoding of one char (a Unicode scalar value)
EncodeChar(c) ==
    IF c < 128 THEN <<c>>
    ELSE IF c < 2048 THEN <<192 + (c \div 64), 128 + (c % 64)>>
    ELSE IF c < 65536
         THEN <<224 + (c \div 4096), 128 + ((c \div 64) % 64), 128 + (c % 64)>>
    ELSE <<240 + (c \div 262144), 128 + ((c \div 4096) % 64),
           128 + ((c \div 64) % 64), 128 + (c % 64)>>

\* str::as_bytes / String::into_bytes
RECURSIVE StrBytes(_)
StrBytes(str) ==
    IF str = <<>> THEN <<>> ELSE EncodeChar(Head(str)) \o StrBytes(Tail(str))

IsCont(b) == 128 <= b /\ b <= 191

\* the length of the well-formed UTF-8 sequence that starts at bytes[i], or 0
Utf8Width(bytes, i) ==
    LET n  == Len(bytes)
        b0 == bytes[i]
        b1 == bytes[i + 1]
    IN  IF b0 < 128 THEN 1
        ELSE IF 194 <= b0 /\ b0 <= 223
             THEN IF i + 1 <= n /\ IsCont(b1) THEN 2 ELSE 0
        ELSE IF 224 <= b0 /\ b0 <= 239
             THEN IF /\ i + 2 <= n
                     /\ IsCont(b1) /\ IsCont(bytes[i + 2])
                     /\ (b0 = 224 => b1 >= 160)
                     /\ (b0 = 237 => b1 <= 159)
                  THEN 3 ELSE 0
        ELSE IF 240 <= b0 /\ b0 <= 244
             THEN IF /\ i + 3 <= n
                     /\ IsCont(b1) /\ IsCont(bytes[i + 2]) /\ IsCont(bytes[i + 3])
                     /\ (b0 = 240 => b1 >= 144)
                     /\ (b0 = 244 => b1 <= 143)
                  THEN 4 ELSE 0
        ELSE 0

DecodeChar(bytes, i, w) ==
    IF w = 1 THEN bytes[i]
    ELSE IF w = 2 THEN (bytes[i] - 192) * 64 + (bytes[i + 1] - 128)
    ELSE IF w = 3
         THEN (bytes[i] - 224) * 4096 + (bytes[i + 1] - 128) * 64 + (bytes[i + 2] - 128)
    ELSE (bytes[i] - 240) * 262144 + (bytes[i + 1] - 128) * 4096
         + (bytes[i + 2] - 128) * 64 + (bytes[i + 3] - 128)

\* std::str::from_utf8: [ok, str]
RECURSIVE FromUtf8At(_, _, _)
FromUtf8At(bytes, i, acc) ==
    IF i > Len(bytes) THEN [ok |-> TRUE, str |-> acc]
    ELSE LET w == Utf8Width(bytes, i)
         IN  IF w = 0 THEN [ok |-> FALSE, str |-> <<>>]
             ELSE FromUtf8At(bytes, i + w, Append(acc, DecodeChar(bytes, i, w)))

FromUtf8(bytes) == FromUtf8At(bytes, 1, <<>>)

----------------------------------------------------------------------------
\* ChunkType (chunk_type.rs).

\* ChunkType::new
ChunkTypeNew(bytes) == [bytes |-> bytes]

\* ChunkType::bytes
TypeBytes(t) == t.bytes

\* the mutant of is_only_possible_bytes: upper bounds taken exclusive once more
IsOnlyPossibleBytesNarrow(t) ==
    \A i \in 1..Len(t.bytes) :
        \/ (65 <= t.bytes[i] /\ t.bytes[i] < 90)
        \/ (97 <= t.bytes[i] /\ t.bytes[i] < 122)

\* ChunkType::is_only_possible_bytes
IsOnlyPossibleBytes(t) ==
    \A i \in 1..Len(t.bytes) :
        \/ (65 <= t.bytes[i] /\ t.bytes[i] < 91)
        \/ (97 <= t.bytes[i] /\ t.bytes[i] < 123)

IsAsciiUppercase(b) == 65 <= b /\ b <= 90

\* ChunkType::is_reserved_bit_valid
IsReservedBitValid(t) == IsAsciiUppercase(t.bytes[3])

NoType == [bytes |-> <<>>]

\* <ChunkType as FromStr>::from_str: [ok, err, type]
FromStr(str) ==
    LET bytes == StrBytes(str)
    IN  IF Len(bytes) # 4
        THEN [ok |-> FALSE, err |-> "TryFromSliceError", type |-> NoType]
        ELSE LET temp == [bytes |-> bytes]
             IN  IF ~IsOnlyPossibleBytes(temp)
                 THEN [ok |-> FALSE, err |-> "Invalid", type |-> NoType]
                 ELSE [ok |-> TRUE, err |-> "", type |-> temp]

\* the mutant of Display: the last type byte is not rendered
TypeToStringShort(t) == FromUtf8(SubSeq(t.bytes, 1, 3))

\* <ChunkType as Display>::fmt, through to_string: from_utf8(..).unwrap()
\* panics on bytes that are not UTF-8: [ok, str]
TypeToString(t) == FromUtf8(t.bytes)

----------------------------------------------------------------------------
\* Chunk (chunk.rs).

NoChunk == [length |-> U32(0, 0), type |-> NoType, data |-> <<>>, crc |-> U32(0, 0)]

\* the mutant of the checksum of Chunk::new: the type bytes are left out
NewCrcDataOnly(chunk_type, data) == Checksum(data)

\* the checksum Chunk::new computes
NewCrc(chunk_type, data) == Checksum(TypeBytes(chunk_type) \o data)

\* the mutant of Chunk::new: the length counts the CRC too
ChunkNewLongLength(chunk_type, data) ==
    [length |-> AsU32(Len(data) + 4),
     type   |-> chunk_type,
     data   |-> data,
     crc    |-> NewCrc(chunk_type, data)]

\* Chunk::new
ChunkNew(chunk_type, data) ==
    [length |-> AsU32(Len(data)),
     type   |-> chunk_type,
     data   |-> data,
     crc    |-> NewCrc(chunk_type, data)]

\* the mutant of Chunk::as_bytes: the length is written little-endian
AsBytesLittleEndian(c) ==
    <<c.length.lo % 256, c.length.lo \div 256, c.length.hi % 256, c.length.hi \div 256>>
        \o TypeBytes(c.type) \o c.data \o ToBeBytes(c.crc)

\* Chunk::as_bytes
AsBytes(c) ==
    ToBeBytes(c.length) \o TypeBytes(c.type) \o c.data \o ToBeBytes(c.crc)

\* Chunk::chunk_type
ChunkTypeOf(c) == c.type

\* the mutant of Chunk::data_as_string: a lossy conversion that never fails
DataAsStringLossy(c) ==
    LET r == FromUtf8(c.data)
    IN  IF r.ok THEN r ELSE [ok |-> TRUE, str |-> <<65533>>]

\* Chunk::data_as_string: [ok, str]
DataAsString(c) == FromUtf8(c.data)

\* the mutant of the checksum of try_from: the type bytes are left out
CalcedCrcDataOnly(chunk_type, data) == Checksum(data)

\* the checksum Chunk::try_from computes over what it read
CalcedCrc(chunk_type, data) == Checksum(TypeBytes(chunk_type) \o data)

ChunkErr(e) == [ok |-> FALSE, err |-> e, chunk |-> NoChunk]

\* the bytes of value from offset pos (0-based) on hold at least n more:
\* read_exact succeeds.  Every slice of the model is shorter than 65536.
CanRead(value, pos, n) == n.hi = 0 /\ pos + n.lo <= Len(value)

\* the mutant of Chunk::try_from: the CRC read is not compared
TryFromUnchecked(value) ==
    IF ~CanRead(value, 0, U32(0, 4)) THEN ChunkErr("UnexpectedEof")
    ELSE LET length == FromBeBytes(SubSeq(value, 1, 4))
    IN  IF ~CanRead(value, 4, U32(0, 4)) THEN ChunkErr("UnexpectedEof")
    ELSE LET chunk_type == ChunkTypeNew(SubSeq(value, 5, 8))
    IN  IF ~CanRead(value, 8, length) THEN ChunkErr("UnexpectedEof")
    ELSE LET data == SubSeq(value, 9, 8 + length.lo)
    IN  IF ~CanRead(value, 8 + length.lo, U32(0, 4)) THEN ChunkErr("UnexpectedEof")
    ELSE LET crc == FromBeBytes(SubSeq(value, 9 + length.lo, 12 + length.lo))
    IN  [ok |-> TRUE, err |-> "",
         chunk |-> [length |-> length, type |-> chunk_type, data |-> data, crc |-> crc]]

\* the mutant of Chunk::try_from: the checksum covers the length field too
TryFromCrcOverLength(value) ==
    IF ~CanRead(value, 0, U32(0, 4)) THEN ChunkErr("UnexpectedEof")
    ELSE LET length == FromBeBytes(SubSeq(value, 1, 4))
    IN  IF ~CanRead(value, 4, U32(0, 4)) THEN ChunkErr("UnexpectedEof")
    ELSE LET chunk_type == ChunkTypeNew(SubSeq(value, 5, 8))
    IN  IF ~CanRead(value, 8, length) THEN ChunkErr("UnexpectedEof")
    ELSE LET data == SubSeq(value, 9, 8 + length.lo)
    IN  IF ~CanRead(value, 8 + length.lo, U32(0, 4)) THEN ChunkErr("UnexpectedEof")
    ELSE LET crc == FromBeBytes(SubSeq(value, 9 + length.lo, 12 + length.lo))
             calced_crc == Checksum(SubSeq(value, 1, 8 + length.lo))
    IN  IF crc # calced_crc THEN ChunkErr("Incorrect CRC")
        ELSE [ok |-> TRUE, err |-> "",
              chunk |-> [length |-> length, type |-> chunk_type, data |-> data, crc |-> crc]]

\* <Chunk as TryFrom<&[u8]>>::try_from: [ok, err, chunk]
TryFrom(value) ==
    IF ~CanRead(value, 0, U32(0, 4)) THEN ChunkErr("UnexpectedEof")
    ELSE LET length == FromBeBytes(SubSeq(value, 1, 4))
    IN  IF ~CanRead(value, 4, U32(0, 4)) THEN ChunkErr("UnexpectedEof")
    ELSE LET chunk_type == ChunkTypeNew(SubSeq(value, 5, 8))
    IN  IF ~CanRead(value, 8, length) THEN ChunkErr("UnexpectedEof")
    ELSE LET data == SubSeq(value, 9, 8 + length.lo)
    IN  IF ~CanRead(value, 8 + length.lo, U32(0, 4)) THEN ChunkErr("UnexpectedEof")
    ELSE LET crc == FromBeBytes(SubSeq(value, 9 + length.lo, 12 + length.lo))
             calced_crc == CalcedCrc(chunk_type, data)
    IN  IF crc # calced_crc THEN ChunkErr("Incorrect CRC")
        ELSE [ok |-> TRUE, err |-> "",
              chunk |-> [length |-> length, type |-> chunk_type, data |-> data, crc |-> crc]]

----------------------------------------------------------------------------
\* Png (the png module of main.rs): the signature and the chunks in order.

Signature == <<137, 80, 78, 71, 13, 10, 26, 10>>

NoPng == [chunks |-> <<>>]

\* the chunks decoded one after another from offset cursor (0-based) to the
\* end of the buffer, each advancing the cursor by 12 + length
RECURSIVE ParseChunks(_, _, _)
ParseChunks(bytes, cursor, acc) ==
    IF cursor >= Len(bytes) THEN [ok |-> TRUE, err |-> "", png |-> [chunks |-> acc]]
    ELSE LET r == TryFrom(SubSeq(bytes, cursor + 1, Len(bytes)))
         IN  IF ~r.ok THEN [ok |-> FALSE, err |-> r.err, png |-> NoPng]
             ELSE ParseChunks(bytes, cursor + 12 + r.chunk.length.lo,
                              Append(acc, r.chunk))

\* Png::try_from: [ok, err, png]
PngTryFrom(bytes) ==
    IF Len(bytes) < 8 \/ SubSeq(bytes, 1, 8) # Signature
    THEN [ok |-> FALSE, err |-> "Signature", png |-> NoPng]
    ELSE ParseChunks(bytes, 8, <<>>)

\* Png::append_chunk
AppendChunk(p, c) == [chunks |-> Append(p.chunks, c)]

\* the chunk's type renders as the tag.  A type that does not render (its
\* bytes are not UTF-8) is left undefined by the design; no container of the
\* model holds one.
RendersAs(c, tag) ==
    LET r == TypeToString(ChunkTypeOf(c))
    IN  r.ok /\ r.str = tag

RECURSIVE Retain(_, _, _, _)
Retain(chunks, tag, i, acc) ==
    IF i > Len(chunks) THEN acc
    ELSE Retain(chunks, tag, i + 1,
                IF RendersAs(chunks[i], tag) THEN acc ELSE Append(acc, chunks[i]))

\* Png::remove_chunks
RemoveChunks(p, tag) == [chunks |-> Retain(p.chunks, tag, 1, <<>>)]

\* Png::chunks
Chunks(p) == p.chunks

\* Png::find_chunk: the first chunk of the type, if any
RECURSIVE FindFrom(_, _, _)
FindFrom(chunks, tag, i) ==
    IF i > Len(chunks) THEN <<>>
    ELSE IF RendersAs(chunks[i], tag) THEN <<chunks[i]>>
    ELSE FindFrom(chunks, tag, i + 1)

FindChunk(p, tag) == FindFrom(p.chunks, tag, 1)

RECURSIVE EncodeChunks(_, _)
EncodeChunks(chunks, i) ==
    IF i > Len(chunks) THEN <<>>
    ELSE AsBytes(chunks[i]) \o EncodeChunks(chunks, i + 1)

\* Png::as_bytes
PngAsBytes(p) == Signature \o EncodeChunks(p.chunks, 1)

----------------------------------------------------------------------------
\* The values the variables of one part keep while another part runs.  An
\* optional value is a sequence of length 0 or 1.

TypeIdle == s = <<>> /\ parsed = <<>> /\ rendered = <<>>

ChunkIdle ==
    /\ chunk = <<>> /\ wire = <<>> /\ decoded = <<>> /\ reenc = <<>>
    /\ edit = [kind |-> "unencoded", pos |-> 0]

PngIdle ==
    /\ buf = <<>> /\ png = <<>> /\ orig = <<>> /\ out = <<>>
    /\ op = [kind |-> "none", tag |-> <<>>, chunk |-> NoChunk] /\ phase = "input"

NoCmd == [name |-> "none", tag |-> <<>>, message |-> <<>>, output |-> FALSE, input |-> <<>>]

CliIdle ==
    /\ file = <<>> /\ cmd = NoCmd
    /\ result = "none" /\ printed = <<>> /\ written = <<>>

----------------------------------------------------------------------------
\* Chunk type strings: ChunkType::from_str applied to a string, and the
\* result rendered with to_string.

\* "RuSt", "Rust" and "Ru1t", the strings of the tests of chunk_type.rs
StrRuSt == <<82, 117, 83, 116>>
StrRust == <<82, 117, 115, 116>>
StrRu1t == <<82, 117, 49, 116>>

\* '@', 'A', 'Z', '[', 'a', 'z' and the two-byte char U+00E9
Chars == {64, 65, 90, 91, 97, 122, 233}

StrInputs == SeqsUpTo(Chars, MaxChars) \cup {StrRuSt, StrRust, StrRu1t}

TypeInit ==
    /\ s \in StrInputs /\ parsed = <<>> /\ rendered = <<>>
    /\ ChunkIdle /\ PngIdle /\ CliIdle

DoFromStr ==
    /\ parsed = <<>>
    /\ parsed' = <<FromStr(s)>>
    /\ UNCHANGED <<s, rendered, chunkVars, pngVars, cliVars>>

DoToString ==
    /\ parsed # <<>> /\ parsed[1].ok /\ rendered = <<>>
    /\ rendered' = <<TypeToString(parsed[1].type)>>
    /\ UNCHANGED <<s, parsed, chunkVars, pngVars, cliVars>>

TypeNext == DoFromStr \/ DoToString

SpecType == TypeInit /\ [][TypeNext]_vars

----------------------------------------------------------------------------
\* The chunk codec: a chunk is built, encoded, the bytes are possibly
\* changed on the way, and decoded.

\* "RuSt", and four bytes that are neither letters nor UTF-8
TypeInputs == {<<82, 117, 83, 116>>, <<137, 49, 0, 255>>}

PayloadBytes == {0, 255}

\* short payloads, and the payload that is the big-endian CRC of the type alone
PayloadInputs(t) ==
    SeqsUpTo(PayloadBytes, MaxPayloadLen) \cup {ToBeBytes(Checksum(t))}

ChunkInit ==
    /\ chunk = <<>> /\ wire = <<>> /\ decoded = <<>> /\ reenc = <<>>
    /\ edit = [kind |-> "unencoded", pos |-> 0]
    /\ TypeIdle /\ PngIdle /\ CliIdle

\* Chunk::new(t, p)
DoNew ==
    /\ chunk = <<>>
    /\ \E t \in TypeInputs : \E p \in PayloadInputs(t) :
           chunk' = <<ChunkNew(ChunkTypeNew(t), p)>>
    /\ UNCHANGED <<wire, edit, decoded, reenc, typeVars, pngVars, cliVars>>

\* chunk.as_bytes()
DoAsBytes ==
    /\ chunk # <<>> /\ edit.kind = "unencoded"
    /\ wire' = AsBytes(chunk[1])
    /\ edit' = [kind |-> "none", pos |-> 0]
    /\ UNCHANGED <<chunk, decoded, reenc, typeVars, pngVars, cliVars>>

\* one byte of the encoded chunk is changed to another value
Tamper ==
    /\ edit.kind = "none" /\ decoded = <<>>
    /\ \E i \in 1..Len(wire) : \E v \in Byte \ {wire[i]} :
           /\ wire' = [wire EXCEPT ![i] = v]
           /\ edit' = [kind |-> "byte", pos |-> i]
    /\ UNCHANGED <<chunk, decoded, reenc, typeVars, pngVars, cliVars>>

\* the encoded chunk is cut short
Truncate ==
    /\ edit.kind = "none" /\ decoded = <<>>
    /\ \E n \in 0..(Len(wire) - 1) :
           /\ wire' = SubSeq(wire, 1, n)
           /\ edit' = [kind |-> "trunc", pos |-> n]
    /\ UNCHANGED <<chunk, decoded, reenc, typeVars, pngVars, cliVars>>

\* a byte follows the encoded chunk in the slice
Trail ==
    /\ edit.kind \in {"none", "trail"} /\ edit.pos < MaxTrail /\ decoded = <<>>
    /\ \E b \in PayloadBytes :
           /\ wire' = Append(wire, b)
           /\ edit' = [kind |-> "trail", pos |-> edit.pos + 1]
    /\ UNCHANGED <<chunk, decoded, reenc, typeVars, pngVars, cliVars>>

\* Chunk::try_from(wire)
DoTryFrom ==
    /\ edit.kind # "unencoded" /\ decoded = <<>>
    /\ decoded' = <<TryFrom(wire)>>
    /\ UNCHANGED <<chunk, wire, edit, reenc, typeVars, pngVars, cliVars>>

\* as_bytes of the decoded chunk
DoReencode ==
    /\ decoded # <<>> /\ decoded[1].ok /\ reenc = <<>>
    /\ reenc' = <<AsBytes(decoded[1].chunk)>>
    /\ UNCHANGED <<chunk, wire, edit, decoded, typeVars, pngVars, cliVars>>

ChunkNext ==
    DoNew \/ DoAsBytes \/ Tamper \/ Truncate \/ Trail \/ DoTryFrom \/ DoReencode

SpecChunk == ChunkInit /\ [][ChunkNext]_vars

----------------------------------------------------------------------------
\* Byte buffers read as PNG files: well-formed ones, given byte by byte, and
\* damaged copies of them.

\* the chunk RuSt "H"
WireRuStH == <<0, 0, 0, 1, 82, 117, 83, 116, 72, 133, 190, 222, 161>>
\* the chunk RuSt with the payload FF, which is not UTF-8
WireRuStFF == <<0, 0, 0, 1, 82, 117, 83, 116, 255, 208, 187, 248, 142>>
\* the chunk Ru1t "H", of a type no type string names
WireRu1tH == <<0, 0, 0, 1, 82, 117, 49, 116, 72, 206, 237, 193, 239>>
\* the chunk IEND
WireIEND == <<0, 0, 0, 0, 73, 69, 78, 68, 174, 66, 96, 130>>

WirePool == {WireRuStH, WireRuStFF, WireRu1tH, WireIEND}

\* most chunks of a well-formed input buffer
MaxInputChunks == 2

GoodBufs == {Signature \o Flatten(ws) : ws \in SeqsUpTo(WirePool, MaxInputChunks)}

\* where a buffer is damaged: the last signature byte, the low length byte
\* of the first chunk, the last byte
DamagePos(b) == {8, 12, Len(b)} \cap (1..Len(b))

\* one byte changed, the last byte or all but a piece of the signature cut
\* off, or a byte added
BadBufs ==
    UNION {
        {[b EXCEPT ![i] = (b[i] + 1) % 256] : i \in DamagePos(b)}
            \cup {SubSeq(b, 1, Len(b) - 1), SubSeq(b, 1, 7), Append(b, 0)}
        : b \in GoodBufs}

BufInputs == GoodBufs \cup BadBufs

\* types and payloads of the chunks appended to a container
AppendTypes == {<<82, 117, 83, 116>>}
AppendPayloads == {<<72>>, <<255>>}

\* "RuSt", "Ru1t", and "RuS", which is too short
TagInputs == {StrRuSt, StrRu1t, <<82, 117, 83>>}

----------------------------------------------------------------------------
\* The container: a buffer is parsed, chunks are appended and removed, the
\* container is encoded and the bytes are parsed again.

PngInit ==
    /\ buf \in BufInputs /\ png = <<>> /\ orig = <<>> /\ out = <<>>
    /\ op = [kind |-> "none", tag |-> <<>>, chunk |-> NoChunk] /\ phase = "input"
    /\ TypeIdle /\ ChunkIdle /\ CliIdle

\* Png::try_from(buf)
DoParse ==
    /\ phase = "input"
    /\ LET r == PngTryFrom(buf)
       IN  IF r.ok THEN png' = <<r.png>> /\ phase' = "parsed"
           ELSE png' = <<>> /\ phase' = "failed"
    /\ UNCHANGED <<buf, orig, op, out, typeVars, chunkVars, cliVars>>

\* png.append_chunk(Chunk::new(t, p))
DoAppendChunk ==
    /\ phase \in {"parsed", "mutated"}
    /\ Len(png[1].chunks) < MaxChunks
    /\ \E t \in AppendTypes : \E p \in AppendPayloads :
           LET c == ChunkNew(ChunkTypeNew(t), p)
           IN  /\ png' = <<AppendChunk(png[1], c)>>
               /\ op' = [kind |-> "append", tag |-> <<>>, chunk |-> c]
    /\ orig' = png[1].chunks
    /\ phase' = "mutated"
    /\ UNCHANGED <<buf, out, typeVars, chunkVars, cliVars>>

\* png.remove_chunks(tag)
DoRemoveChunks ==
    /\ phase \in {"parsed", "mutated"}
    /\ \E tag \in TagInputs :
           /\ png' = <<RemoveChunks(png[1], tag)>>
           /\ op' = [kind |-> "remove", tag |-> tag, chunk |-> NoChunk]
    /\ orig' = png[1].chunks
    /\ phase' = "mutated"
    /\ UNCHANGED <<buf, out, typeVars, chunkVars, cliVars>>

\* png.as_bytes()
DoPngAsBytes ==
    /\ phase \in {"parsed", "mutated"}
    /\ out' = PngAsBytes(png[1])
    /\ phase' = "encoded"
    /\ UNCHANGED <<buf, png, orig, op, typeVars, chunkVars, cliVars>>

\* Png::try_from(out)
DoReparse ==
    /\ phase = "encoded"
    /\ LET r == PngTryFrom(out)
       IN  IF r.ok THEN png' = <<r.png>> /\ phase' = "reparsed"
           ELSE png' = <<>> /\ phase' = "refailed"
    /\ UNCHANGED <<buf, orig, op, out, typeVars, chunkVars, cliVars>>

PngNext == DoParse \/ DoAppendChunk \/ DoRemoveChunks \/ DoPngAsBytes \/ DoReparse

SpecPng == PngInit /\ [][PngNext]_vars

----------------------------------------------------------------------------
\* The commands of main.rs.  A command reads the file at its path, and writes
\* at most one file; written is that write, if any, and file the bytes at
\* the input path.

NoOutcome(e) == [result |-> e, written |-> <<>>, printed |-> <<>>]

\* get_png_from_path, given the bytes read from the path
GetPng(bytes) == PngTryFrom(bytes)

\* hide_msg
HideMsg(input, message, chunk_type, output) ==
    LET got == GetPng(input)
    IN  IF ~got.ok THEN NoOutcome(got.err)
        ELSE LET ct == FromStr(chunk_type)
        IN  IF ~ct.ok THEN NoOutcome(ct.err)
        ELSE LET c == ChunkNew(ct.type, StrBytes(message))
                 after == AppendChunk(got.png, c)
        IN  [result  |-> "Ok",
             written |-> <<[path  |-> IF output THEN "output" ELSE "input",
                            bytes |-> PngAsBytes(after)]>>,
             printed |-> <<>>]

\* the loop of find_msg over png.chunks(): [ok, messages]
RECURSIVE CollectMessages(_, _, _, _)
CollectMessages(chunks, chunk_type, i, messages) ==
    IF i > Len(chunks) THEN [ok |-> TRUE, messages |-> messages]
    ELSE IF ChunkTypeOf(chunks[i]) = chunk_type
         THEN LET msg == DataAsString(chunks[i])
              IN  IF ~msg.ok THEN [ok |-> FALSE, messages |-> <<>>]
                  ELSE CollectMessages(chunks, chunk_type, i + 1,
                                       Append(messages, msg.str))
    ELSE CollectMessages(chunks, chunk_type, i + 1, messages)

\* [String]::join
RECURSIVE Join(_, _)
Join(strs, sep) ==
    IF strs = <<>> THEN <<>>
    ELSE IF Len(strs) = 1 THEN strs[1]
    ELSE strs[1] \o sep \o Join(Tail(strs), sep)

\* find_msg
FindMsg(input, chunk_type) ==
    LET got == GetPng(input)
    IN  IF ~got.ok THEN NoOutcome(got.err)
        ELSE LET ct == FromStr(chunk_type)
        IN  IF ~ct.ok THEN NoOutcome(ct.err)
        ELSE LET found == CollectMessages(Chunks(got.png), ct.type, 1, <<>>)
        IN  IF ~found.ok THEN NoOutcome("Utf8Error")
            ELSE [result  |-> "Ok",
                  written |-> <<>>,
                  printed |-> <<Join(found.messages, <<10>>)>>]

\* remove_msg
RemoveMsg(input, chunk_type) ==
    LET got == GetPng(input)
    IN  IF ~got.ok THEN NoOutcome(got.err)
        ELSE LET after == RemoveChunks(got.png, chunk_type)
        IN  [result  |-> "Ok",
             written |-> <<[path |-> "input", bytes |-> PngAsBytes(after)]>>,
             printed |-> <<>>]

\* "H" and the one-char message U+00E9
MsgInputs == {<<72>>, <<233>>}

CliInit ==
    /\ file \in BufInputs /\ cmd = NoCmd
    /\ result = "none" /\ printed = <<>> /\ written = <<>>
    /\ TypeIdle /\ ChunkIdle /\ PngIdle

\* what a command's outcome leaves behind
Outcome(o) ==
    /\ result' = o.result
    /\ written' = o.written
    /\ printed' = o.printed
    /\ file' = IF o.written # <<>> /\ o.written[1].path = "input"
               THEN o.written[1].bytes ELSE file

\* the file still has room for a chunk
Room == LET got == GetPng(file) IN got.ok => Len(got.png.chunks) < MaxChunks

\* hide -i path -c tag -m message [-o output]
Hide ==
    /\ Room
    /\ \E tag \in TagInputs : \E message \in MsgInputs : \E output \in BOOLEAN :
           /\ cmd' = [name |-> "hide", tag |-> tag, message |-> message,
                      output |-> output, input |-> file]
           /\ Outcome(HideMsg(file, message, tag, output))
    /\ UNCHANGED <<typeVars, chunkVars, pngVars>>

\* find -p path -c tag
Find ==
    /\ \E tag \in TagInputs :
           /\ cmd' = [name |-> "find", tag |-> tag, message |-> <<>>,
                      output |-> FALSE, input |-> file]
           /\ Outcome(FindMsg(file, tag))
    /\ UNCHANGED <<typeVars, chunkVars, pngVars>>

\* delete -p path -c tag
Delete ==
    /\ \E tag \in TagInputs :
           /\ cmd' = [name |-> "delete", tag |-> tag, message |-> <<>>,
                      output |-> FALSE, input |-> file]
           /\ Outcome(RemoveMsg(file, tag))
    /\ UNCHANGED <<typeVars, chunkVars, pngVars>>

CliNext == Hide \/ Find \/ Delete

SpecCli == CliInit /\ [][CliNext]_vars

----------------------------------------------------------------------------
\* Properties of the chunk type strings.

IsAsciiLetter(b) == (65 <= b /\ b <= 90) \/ (97 <= b /\ b <= 122)

\* C6: from_str(s) succeeds exactly when s is 4 bytes long and every byte is
\* an ASCII letter, whatever the case of the letters ("Rust", whose reserved
\* bit is invalid, is accepted and "Ru1t" is rejected); and when it succeeds,
\* to_string of the result gives back s.
C6_FromStrLettersOnly ==
    /\ parsed # <<>> =>
          /\ parsed[1].ok <=>
                /\ Len(StrBytes(s)) = 4
                /\ \A i \in 1..4 : IsAsciiLetter(StrBytes(s)[i])
          /\ s = StrRust => parsed[1].ok /\ ~IsReservedBitValid(parsed[1].type)
          /\ s = StrRu1t => ~parsed[1].ok
    /\ rendered # <<>> => rendered[1].ok /\ rendered[1].str = s

\* "Rust" was accepted although its reserved bit is invalid, and rendered
C6_Witness ==
    /\ s = StrRust /\ parsed # <<>> /\ parsed[1].ok
    /\ ~IsReservedBitValid(parsed[1].type)
    /\ rendered # <<>> /\ rendered[1].str = StrRust

----------------------------------------------------------------------------
\* Properties of the chunk codec.

\* the number of payload bytes a slice announces, when its upper two length
\* bytes are 0 (every slice of the model is shorter than 65536 bytes)
AnnouncedLen(w) == w[3] * 256 + w[4]

\* the slice holds the whole chunk its first four bytes announce
HoldsWholeChunk(w) ==
    /\ Len(w) >= 4 /\ w[1] = 0 /\ w[2] = 0
    /\ Len(w) >= 12 + AnnouncedLen(w)

\* the four bytes after the payload are the CRC-32 of type and payload
CrcFieldMatches(w) ==
    SubSeq(w, 9 + AnnouncedLen(w), 12 + AnnouncedLen(w))
        = ToBeBytes(Checksum(SubSeq(w, 5, 8 + AnnouncedLen(w))))

U32Less(a, b) == a.hi < b.hi \/ (a.hi = b.hi /\ a.lo < b.lo)

\* C1: decoding the bytes of a constructed chunk, unchanged, succeeds and
\* yields the same type, payload and CRC.
C1_RoundTrip ==
    (edit.kind = "none" /\ decoded # <<>>) =>
        /\ decoded[1].ok
        /\ decoded[1].chunk.type = chunk[1].type
        /\ decoded[1].chunk.data = chunk[1].data
        /\ decoded[1].chunk.crc = chunk[1].crc

\* a chunk with a payload was encoded and decoded again
C1_Witness ==
    /\ edit.kind = "none" /\ decoded # <<>> /\ decoded[1].ok
    /\ Len(chunk[1].data) = MaxPayloadLen

\* C3, as claimed: whichever single byte of the encoded chunk is changed,
\* decoding fails with the CRC mismatch.
C3_AnyByteCrcMismatch ==
    (edit.kind = "byte" /\ decoded # <<>>) =>
        ~decoded[1].ok /\ decoded[1].err = "Incorrect CRC"

\* C3, amended: a changed byte of the type, the payload or the CRC field
\* makes decoding fail with the CRC mismatch; a changed length byte makes it
\* fail with an unexpected end of input when the length grew, and when the
\* length shrank decoding either fails with the CRC mismatch or, the four
\* bytes after the shortened payload being its CRC, succeeds with the
\* shortened payload.
C3_TamperByField ==
    (edit.kind = "byte" /\ decoded # <<>>) =>
        LET was == chunk[1].length
            now == FromBeBytes(SubSeq(wire, 1, 4))
        IN  /\ edit.pos >= 5 => ~decoded[1].ok /\ decoded[1].err = "Incorrect CRC"
            /\ (edit.pos <= 4 /\ U32Less(was, now)) =>
                   ~decoded[1].ok /\ decoded[1].err = "UnexpectedEof"
            /\ (edit.pos <= 4 /\ U32Less(now, was)) =>
                   IF CrcFieldMatches(wire)
                   THEN /\ decoded[1].ok
                        /\ decoded[1].chunk.data = SubSeq(chunk[1].data, 1, now.lo)
                        /\ decoded[1].chunk.type = chunk[1].type
                   ELSE ~decoded[1].ok /\ decoded[1].err = "Incorrect CRC"

\* a payload byte was changed and the decoding failed on the CRC
C3_Witness ==
    /\ edit.kind = "byte" /\ decoded # <<>>
    /\ edit.pos > 8 /\ edit.pos <= 8 + Len(chunk[1].data)
    /\ ~decoded[1].ok /\ decoded[1].err = "Incorrect CRC"

\* C8: try_from succeeds exactly when the slice holds the 12 + L bytes its
\* length field L announces and the four bytes at offset 8 + L are the CRC-32
\* of the bytes 4 .. 8 + L; the decoded chunk is made of those 12 + L bytes
\* alone, whatever follows them.
C8_TryFromCondition ==
    decoded # <<>> =>
        /\ decoded[1].ok <=> (HoldsWholeChunk(wire) /\ CrcFieldMatches(wire))
        /\ decoded[1].ok =>
              LET L == AnnouncedLen(wire)
              IN  /\ ToBeBytes(decoded[1].chunk.length) = SubSeq(wire, 1, 4)
                  /\ decoded[1].chunk.type.bytes = SubSeq(wire, 5, 8)
                  /\ decoded[1].chunk.data = SubSeq(wire, 9, 8 + L)
                  /\ ToBeBytes(decoded[1].chunk.crc) = SubSeq(wire, 9 + L, 12 + L)

\* a slice with a byte after the chunk was decoded
C8_Witness ==
    /\ edit.kind = "trail" /\ decoded # <<>> /\ decoded[1].ok
    /\ Len(wire) > 12 + Len(decoded[1].chunk.data)

\* the length field is the payload's length and the CRC that of type and payload
FieldsAgree(c) ==
    /\ c.length.hi = 0 /\ c.length.lo = Len(c.data)
    /\ c.crc = Checksum(c.type.bytes \o c.data)

\* 12 + (payload length) bytes, the first four the payload length, big-endian
LengthFirst(c, bytes) ==
    /\ Len(bytes) = 12 + Len(c.data)
    /\ bytes[1] = 0 /\ bytes[2] = 0
    /\ bytes[3] * 256 + bytes[4] = Len(c.data)

\* C9: in every chunk, built by new or decoded by try_from, the length field
\* is the number of payload bytes and the CRC is the CRC-32 of type and
\* payload; as_bytes emits 12 + (payload length) bytes that start with the
\* payload length in big-endian.
C9_ChunkInvariant ==
    /\ chunk # <<>> => FieldsAgree(chunk[1])
    /\ edit.kind = "none" => LengthFirst(chunk[1], wire)
    /\ (decoded # <<>> /\ decoded[1].ok) => FieldsAgree(decoded[1].chunk)
    /\ reenc # <<>> => LengthFirst(decoded[1].chunk, reenc[1])

\* a decoded chunk with a payload was encoded
C9_Witness ==
    /\ reenc # <<>> /\ Len(decoded[1].chunk.data) > 0
    /\ edit.kind = "none" /\ Len(chunk[1].data) > 0

\* a changed length byte gave a slice that decodes, to another chunk
ShortenedChunkDecodes ==
    /\ edit.kind = "byte" /\ edit.pos <= 4
    /\ decoded # <<>> /\ decoded[1].ok

----------------------------------------------------------------------------
\* Properties of the container.

\* C2: a buffer that parses as a PNG container, encoded again with nothing
\* appended or removed in between, gives the bytes of the buffer.
C2_ParseThenEncode ==
    (phase = "encoded" /\ op.kind = "none") => out = buf

\* a buffer of two chunks was parsed and encoded
C2_Witness ==
    /\ phase = "encoded" /\ op.kind = "none"
    /\ Len(png[1].chunks) >= 2 /\ Len(png[1].chunks[1].data) > 0

NotOfType(tagBytes, c) == c.type.bytes # tagBytes

RemoveAt(q, i) == SubSeq(q, 1, i - 1) \o SubSeq(q, i + 1, Len(q))

\* C5: after append_chunk(c), as_bytes and try_from of the bytes, the parse
\* succeeds and the chunks are the original ones and a chunk of c's type and
\* payload.
C5_AppendSurvives ==
    (op.kind = "append" /\ phase \in {"reparsed", "refailed"}) =>
        /\ phase = "reparsed"
        /\ \E i \in 1..Len(png[1].chunks) :
               /\ png[1].chunks[i].type = op.chunk.type
               /\ png[1].chunks[i].data = op.chunk.data
               /\ RemoveAt(png[1].chunks, i) = orig

\* a chunk with a payload was appended to two chunks, encoded and parsed
C5_Witness ==
    /\ op.kind = "append" /\ phase = "reparsed"
    /\ Len(orig) >= 2 /\ Len(op.chunk.data) > 0

----------------------------------------------------------------------------
\* Properties of the commands.

LegalTag(tag) ==
    /\ Len(StrBytes(tag)) = 4
    /\ \A i \in 1..4 : IsAsciiLetter(StrBytes(tag)[i])

\* C7: a command given bytes that are no well-formed PNG, or an illegal
\* chunk-type string, fails and writes no file.
C7_BadInputNoWrite ==
    (/\ cmd.name \in {"hide", "find", "delete"}
     /\ ~PngTryFrom(cmd.input).ok \/ ~LegalTag(cmd.tag)) =>
        result # "Ok" /\ written = <<>>

\* hide and find do fail so, and the bytes at the input path stay as they were
HideFindBadInputNoWrite ==
    (/\ cmd.name \in {"hide", "find"}
     /\ ~PngTryFrom(cmd.input).ok \/ ~LegalTag(cmd.tag)) =>
        result # "Ok" /\ written = <<>> /\ file = cmd.input

\* delete with an illegal string ended well and wrote the file
DeleteWithIllegalTagWrites ==
    /\ cmd.name = "delete" /\ ~LegalTag(cmd.tag)
    /\ result = "Ok" /\ written # <<>>

OfType(tagBytes, c) == c.type.bytes = tagBytes

\* C10: find, on a well-formed PNG and a legal string, prints the payloads of
\* the chunks whose type bytes are the string's bytes, and of no other, in
\* the order of the file; if one of those payloads is not UTF-8 it fails and
\* prints nothing; and find never writes a file.
C10_FindPrintsMatching ==
    cmd.name = "find" =>
        /\ written = <<>> /\ file = cmd.input
        /\ (PngTryFrom(cmd.input).ok /\ LegalTag(cmd.tag)) =>
              LET matching == SelectSeq(PngTryFrom(cmd.input).png.chunks,
                                        LAMBDA c : OfType(StrBytes(cmd.tag), c))
                  texts == [i \in 1..Len(matching) |-> FromUtf8(matching[i].data)]
              IN  IF \A i \in 1..Len(matching) : texts[i].ok
                  THEN /\ result = "Ok"
                       /\ printed = <<Join([i \in 1..Len(matching) |-> texts[i].str],
                                           <<10>>)>>
                  ELSE result # "Ok" /\ printed = <<>>

\* find printed two messages of a file that holds a chunk of another type too
C10_Witness ==
    /\ cmd.name = "find" /\ result = "Ok"
    /\ LET chunks == PngTryFrom(cmd.input).png.chunks
           matching == SelectSeq(chunks, LAMBDA c : OfType(StrBytes(cmd.tag), c))
       IN  /\ Len(matching) = 2 /\ Len(chunks) = 3
           /\ matching[1].data # matching[2].data

\* find failed on a payload that is not UTF-8
FindFailsOnPayload ==
    cmd.name = "find" /\ result = "Utf8Error" /\ printed = <<>>

====
